---- MODULE Spec2Model ----
(***************************************************************************)
(* The voxel world editor and region serializer of src/world_editor.rs:    *)
(* the sparse write buffer (world -> region -> chunk -> section), the      *)
(* editor facade (set_block, fill_blocks, check_for_block, set_sign), the  *)
(* palette encoder of a section and the save path onto region files.       *)
(***************************************************************************)
EXTENDS Integers, Sequences, FiniteSets, TLC

VARIABLES
    world,      \* WorldEditor.world: the regions map of WorldToModify
    scale,      \* <<scale_factor_x, scale_factor_z>>, each a float in halves
    template,   \* which build of mcassets/region.template is embedded
    files,      \* the region directory: (rx, rz) -> 1024 chunk slots of NBT
    panicked,   \* an unwrap() has aborted the process
    last,       \* the last operation, its arguments, the buffer before it
    nops,       \* number of operations performed so far
    dec,        \* decomposition harness: x, z and their decompositions
    enc,        \* encoder harness: a section buffer and its encoding
    prog,       \* save's progress: counter, last emitted, values emitted
    iter,       \* the order in which save last iterated each hash map
    layout      \* per region file: the order in which the keys of each
                \* compound decoded from the template were written

vars ==
    <<world, scale, template, files, panicked, last, nops, dec, enc, prog,
      iter, layout>>

(***************************************************************************)
(* Machine integers.  An i32 is a two's complement bit pattern.  For       *)
(* x >= 0 the pattern is the binary numeral of x; for x < 0 it is the      *)
(* complement of the numeral of !x = -x - 1 >= 0.  Shifts and masks are    *)
(* computed on the numeral of the non-negative one of x and !x.            *)
(***************************************************************************)
Pow2(n) == 2 ^ n

\* !x on i32: every bit flipped.
Not32(x) == IF x >= 0 THEN (-x) - 1 ELSE -(x + 1)

\* A logical shift: zero fill from the left (u32 >>), not what i32 >> does.
ShrLogical(x, n) ==
    IF x >= 0 \/ n = 0 THEN x \div Pow2(n)
    ELSE (((x + 2147483647) + 1) \div Pow2(n)) + Pow2(31 - n)

\* x >> n on an i32: arithmetic shift.  The low n bits are dropped and the
\* sign bit fills from the left: for x < 0 the zeros that fill !x are the
\* ones that fill x.
Shr(x, n) ==
    IF x >= 0 THEN x \div Pow2(n) ELSE Not32(Not32(x) \div Pow2(n))

\* x & m on i32 for a mask m = 2^k - 1 (15 and 31 here): the low k bits of
\* the pattern, which for x < 0 are the flipped low k bits of !x.
BitAnd(x, m) ==
    IF x >= 0 THEN x % (m + 1) ELSE m - (Not32(x) % (m + 1))

\* n copies of v.
Repeat(v, n) == [i \in 1..n |-> v]

\* try_into() of an integer into i8 succeeds.
FitsI8(v) == v >= -128 /\ v <= 127

(***************************************************************************)
(* Option<T>: None is the empty sequence, Some(v) the one-element one.     *)
(***************************************************************************)
None == <<>>
Some(v) == <<v>>
IsSome(o) == Len(o) = 1
Unwrap(o) == o[1]

\* A map (FnvHashMap) is a function; Put inserts or replaces one entry.
EmptyMap == <<>>
Put(m, k, v) == (k :> v) @@ m

(***************************************************************************)
(* Block catalog (crate::block_definitions): a block is its identifier;    *)
(* blocks are ordered and compared by it.  AIR marks an untouched cell.    *)
(***************************************************************************)
PLANKS == 0
AIR == 1
STONE == 2
DIRT == 3
SIGN == 4

BlockId(b) == b
BlockName(b) == <<"Name", b>>
BlockProperties(b) == None

(***************************************************************************)
(* SectionToModify: blocks: [Block; 4096], indexed from 0.                 *)
(***************************************************************************)
SectionLen == 4096

SectionDefault == [i \in 0..(SectionLen - 1) |-> AIR]

index(x, y, z) == (y % 16) * 256 + z * 16 + x

SectionGetBlock(blocks, x, y, z) ==
    LET b == blocks[index(x, y, z)]
    IN  IF b = AIR THEN None ELSE Some(b)

SectionSetBlock(blocks, x, y, z, block) ==
    [blocks EXCEPT ![index(x, y, z)] = block]

(***************************************************************************)
(* SectionToModify::to_section: palette and bit-packed long array.         *)
(* An i64 word is the set of the positions (0..63) of its one bits.        *)
(***************************************************************************)
WordBits == 64

\* The i64 with value p >= 0, as the set of its one bits from position k on.
RECURSIVE OneBits(_, _)
OneBits(p, k) ==
    IF p = 0 THEN {}
    ELSE (IF p % 2 = 1 THEN {k} ELSE {}) \cup OneBits(p \div 2, k + 1)

I64(p) == OneBits(p, 0)

\* w << s on i64: bits shifted past position 63 are lost.
Shl64(w, s) == {k + s : k \in {j \in w : j + s < WordBits}}

\* a | b on i64.
Or64(a, b) == a \cup b

\* The elements of the set S as a sequence, ascending.
RECURSIVE Ascending(_)
Ascending(S) ==
    IF S = {} THEN <<>>
    ELSE LET m == CHOOSE v \in S : \A w \in S : v <= w
         IN  <<m>> \o Ascending(S \ {m})

\* The sorted vector as runs: each value of vals, in order, as many times
\* as it occurs in blocks.
RECURSIVE SortRuns(_, _)
SortRuns(blocks, vals) ==
    IF vals = <<>> THEN <<>>
    ELSE Repeat(Head(vals),
                Cardinality({i \in DOMAIN blocks : blocks[i] = Head(vals)}))
         \o SortRuns(blocks, Tail(vals))

\* self.blocks.to_vec() then palette.sort(): the 4096 blocks, ascending.
SortVec(blocks) ==
    SortRuns(blocks, Ascending({blocks[i] : i \in DOMAIN blocks}))

RECURSIVE PickAt(_, _)
PickAt(v, pos) ==
    IF pos = <<>> THEN <<>> ELSE <<v[Head(pos)]>> \o PickAt(v, Tail(pos))

\* palette.dedup(): consecutive repeated elements are removed.
DedupVec(v) ==
    PickAt(v, Ascending({i \in DOMAIN v : i = 1 \/ v[i] # v[i - 1]}))

Palette(blocks) == DedupVec(SortVec(blocks))

\* palette_lookup: block -> index of the block in the palette (from 0);
\* collecting into the map, a later entry replaces an earlier one.
RECURSIVE LookupFrom(_, _, _)
LookupFrom(palette, k, acc) ==
    IF k > Len(palette) THEN acc
    ELSE LookupFrom(palette, k + 1, Put(acc, palette[k], k - 1))

PaletteLookup(palette) == LookupFrom(palette, 1, EmptyMap)

MinBitsPerBlock == 4

RECURSIVE GrowBits(_, _)
GrowBits(bits, n) == IF Pow2(bits) < n THEN GrowBits(bits + 1, n) ELSE bits

\* bits_per_block: from 4, incremented while (1 << bits) < palette.len().
BitsPerBlock(n) == GrowBits(MinBitsPerBlock, n)

\* A contiguous bit stream: the word is flushed only when it is full, and
\* an index that does not fit is split across two words.
PackStepStraddle(st, p, bpb) ==
    LET all == Or64(st.cur, {k + st.cur_idx : k \in I64(p)})
        nidx == st.cur_idx + bpb
    IN  IF nidx >= WordBits
        THEN [data |-> Append(st.data, {k \in all : k < WordBits}),
              cur |-> {k - WordBits : k \in {j \in all : j >= WordBits}},
              cur_idx |-> nidx - WordBits]
        ELSE [data |-> st.data, cur |-> all, cur_idx |-> nidx]

\* One iteration of the packing loop, for the palette index p.
PackStep(st, p, bpb) ==
    LET s1 == IF st.cur_idx + bpb > WordBits
              THEN [data |-> Append(st.data, st.cur), cur |-> {}, cur_idx |-> 0]
              ELSE st
    IN  [data |-> s1.data,
         cur |-> Or64(s1.cur, Shl64(I64(p), s1.cur_idx)),
         cur_idx |-> s1.cur_idx + bpb]

\* The loop over cells lo..hi in index order, from loop state st: the first
\* half of the range, then the second half from the state the first left.
RECURSIVE PackLoop(_, _, _, _, _, _)
PackLoop(blocks, lookup, bpb, lo, hi, st) ==
    IF lo > hi THEN st
    ELSE IF lo = hi THEN PackStep(st, lookup[blocks[lo]], bpb)
    ELSE LET mid == (lo + hi) \div 2
             half == PackLoop(blocks, lookup, bpb, lo, mid, st)
         IN  IF half.cur_idx >= 0
             THEN PackLoop(blocks, lookup, bpb, mid + 1, hi, half)
             ELSE half

PackData(blocks, palette) ==
    LET bpb == BitsPerBlock(Len(palette))
        st == PackLoop(blocks, PaletteLookup(palette), bpb, 0, SectionLen - 1,
                       [data |-> <<>>, cur |-> {}, cur_idx |-> 0])
    IN  IF st.cur_idx > 0 THEN Append(st.data, st.cur) ELSE st.data

PaletteItem(b) == [name |-> BlockName(b), properties |-> BlockProperties(b)]

\* The Section of a section buffer at section index y.
to_section(blocks, y) ==
    LET palette == Palette(blocks)
    IN  [block_states |->
            [palette |-> [k \in DOMAIN palette |-> PaletteItem(palette[k])],
             data |-> Some(PackData(blocks, palette)),
             other |-> EmptyMap],
         y |-> y,
         other |-> EmptyMap]

(***************************************************************************)
(* A call either returns a value or panics in an unwrap().  A panicking    *)
(* call carries the buffer as the panic leaves it.                         *)
(***************************************************************************)
Ok(v) == [panic |-> FALSE, val |-> v]
Panic(v) == [panic |-> TRUE, val |-> v]

(***************************************************************************)
(* ChunkToModify: sections: map i8 -> section buffer; other: map of NBT.   *)
(***************************************************************************)
ChunkDefault == [sections |-> EmptyMap, other |-> EmptyMap]

ChunkGetBlock(chunk, x, y, z) ==
    LET section_idx == Shr(y, 4)
    IN  IF ~FitsI8(section_idx) THEN Panic(None)
        ELSE IF section_idx \notin DOMAIN chunk.sections THEN Ok(None)
        ELSE Ok(SectionGetBlock(chunk.sections[section_idx], x, BitAnd(y, 15), z))

\* A set_block that materialises the section but loses the write.
ChunkSetBlockLost(chunk, x, y, z, block) ==
    LET section_idx == Shr(y, 4)
    IN  IF ~FitsI8(section_idx) THEN Panic(chunk)
        ELSE IF section_idx \in DOMAIN chunk.sections THEN Ok(chunk)
        ELSE Ok([chunk EXCEPT !.sections = Put(@, section_idx, SectionDefault)])

ChunkSetBlock(chunk, x, y, z, block) ==
    LET section_idx == Shr(y, 4)
        section == IF section_idx \in DOMAIN chunk.sections
                   THEN chunk.sections[section_idx]
                   ELSE SectionDefault
    IN  IF ~FitsI8(section_idx) THEN Panic(chunk)
        ELSE Ok([chunk EXCEPT !.sections =
                    Put(@, section_idx,
                        SectionSetBlock(section, x, BitAnd(y, 15), z, block))])

\* Every sequence that lists each element of S once.
RECURSIVE Perms(_)
Perms(S) ==
    IF S = {} THEN {<<>>}
    ELSE UNION {{<<c>> \o p : p \in Perms(S \ {c})} : c \in S}

\* The orders in which iterating a hash map may yield its keys.  The order
\* follows from the hashes, the capacity and the insertions made, none of
\* which is modelled: a map that has had no insertion since it was last
\* iterated (its keys are those of `seen`) yields the order seen then, and
\* any other map may yield any order.
MapIter(keys, seen) ==
    IF {seen[n] : n \in DOMAIN seen} = keys /\ Len(seen) = Cardinality(keys)
    THEN {seen}
    ELSE Perms(keys)

\* ChunkToModify::sections: one encoded section per materialised entry, in
\* the order ys in which the sections map is iterated.
ChunkSections(chunk, ys) ==
    [k \in DOMAIN ys |-> to_section(chunk.sections[ys[k]], ys[k])]

(***************************************************************************)
(* RegionToModify: chunks: map (x, z) -> chunk.                            *)
(* WorldToModify: regions: map (x, z) -> region.                           *)
(***************************************************************************)
RegionDefault == [chunks |-> EmptyMap]

\* The map m with a default entry at key k if it has none.
OrDefault(m, k, d) == IF k \in DOMAIN m THEN m ELSE Put(m, k, d)

\* get_or_create_region then get_or_create_chunk: both are materialised.
Materialise(regions, rk, ck) ==
    LET r1 == OrDefault(regions, rk, RegionDefault)
    IN  [r1 EXCEPT ![rk].chunks = OrDefault(@, ck, ChunkDefault)]

\* region_x = chunk_x >> 5 with chunk_x = x >> 4.
RegionOf(x) == Shr(Shr(x, 4), 5)

\* The chunk's index inside its region: chunk_x & 31.
LocalChunkOf(x) == BitAnd(Shr(x, 4), 31)

\* The block's index inside its chunk: x & 15.
LocalBlockOf(x) == BitAnd(x, 15)

\* A lookup that converts the section index before it looks for the region
\* and the chunk, so that it fails whether or not they exist.
WorldGetBlockEager(regions, x, y, z) ==
    LET rk == <<RegionOf(x), RegionOf(z)>>
        ck == <<LocalChunkOf(x), LocalChunkOf(z)>>
    IN  IF ~FitsI8(Shr(y, 4)) THEN Panic(None)
        ELSE IF rk \notin DOMAIN regions THEN Ok(None)
        ELSE IF ck \notin DOMAIN regions[rk].chunks THEN Ok(None)
        ELSE ChunkGetBlock(regions[rk].chunks[ck],
                           LocalBlockOf(x), y, LocalBlockOf(z))

WorldGetBlock(regions, x, y, z) ==
    LET rk == <<RegionOf(x), RegionOf(z)>>
        ck == <<LocalChunkOf(x), LocalChunkOf(z)>>
    IN  IF rk \notin DOMAIN regions THEN Ok(None)
        ELSE IF ck \notin DOMAIN regions[rk].chunks THEN Ok(None)
        ELSE ChunkGetBlock(regions[rk].chunks[ck],
                           LocalBlockOf(x), y, LocalBlockOf(z))

WorldSetBlock(regions, x, y, z, block) ==
    LET rk == <<RegionOf(x), RegionOf(z)>>
        ck == <<LocalChunkOf(x), LocalChunkOf(z)>>
        r2 == Materialise(regions, rk, ck)
        res == ChunkSetBlock(r2[rk].chunks[ck],
                             LocalBlockOf(x), y, LocalBlockOf(z), block)
    IN  [panic |-> res.panic, val |-> [r2 EXCEPT ![rk].chunks[ck] = res.val]]

(***************************************************************************)
(* fastnbt::Value, tagged.                                                 *)
(***************************************************************************)
VString(str) == [t |-> "String", v |-> str]
VByte(n) == [t |-> "Byte", v |-> n]
VInt(n) == [t |-> "Int", v |-> n]
VList(seq) == [t |-> "List", v |-> seq]
VCompound(m) == [t |-> "Compound", v |-> m]

(***************************************************************************)
(* WorldEditor.  A scale factor is an f64 held in halves (33 is 16.5).     *)
(***************************************************************************)
\* f as i32 for an f64 of h halves: truncation toward zero.
F64AsI32(h) == IF h >= 0 THEN h \div 2 ELSE -((-h) \div 2)

\* A bounds check that also rejects the upper bounds themselves.
OutOfBoundsStrict(sc, x, z) ==
    x < 0 \/ x >= F64AsI32(sc[1]) \/ z < 0 \/ z >= F64AsI32(sc[2])

\* The bounds check of set_block.
OutOfBounds(sc, x, z) ==
    x < 0 \/ x > F64AsI32(sc[1]) \/ z < 0 \/ z > F64AsI32(sc[2])

\* list.iter().any(|b| b.id() == existing.id())
AnyId(list, existing) ==
    \E i \in DOMAIN list : BlockId(list[i]) = BlockId(existing)

\* A policy where a given blacklist is consulted before the whitelist.
ShouldInsertBlacklistFirst(existing, whitelist, blacklist) ==
    IF IsSome(existing)
    THEN IF IsSome(blacklist) THEN ~AnyId(Unwrap(blacklist), Unwrap(existing))
         ELSE IF IsSome(whitelist)
              THEN AnyId(Unwrap(whitelist), Unwrap(existing))
              ELSE FALSE
    ELSE TRUE

\* A policy that overwrites when no list is given.
ShouldInsertByDefault(existing, whitelist, blacklist) ==
    IF IsSome(existing)
    THEN IF IsSome(whitelist) THEN AnyId(Unwrap(whitelist), Unwrap(existing))
         ELSE IF IsSome(blacklist)
              THEN ~AnyId(Unwrap(blacklist), Unwrap(existing))
              ELSE TRUE
    ELSE TRUE

\* should_insert, for the Option<Block> read at the cell.
ShouldInsert(existing, whitelist, blacklist) ==
    IF IsSome(existing)
    THEN IF IsSome(whitelist) THEN AnyId(Unwrap(whitelist), Unwrap(existing))
         ELSE IF IsSome(blacklist)
              THEN ~AnyId(Unwrap(blacklist), Unwrap(existing))
              ELSE FALSE
    ELSE TRUE

\* WorldEditor::set_block on the regions map: the map after the call.
EditorSetBlock(regions, sc, block, x, y, z, whitelist, blacklist) ==
    IF OutOfBounds(sc, x, z) THEN Ok(regions)
    ELSE LET got == WorldGetBlock(regions, x, y, z)
         IN  IF got.panic THEN Panic(regions)
             ELSE IF ShouldInsert(got.val, whitelist, blacklist)
                  THEN WorldSetBlock(regions, x, y, z, block)
                  ELSE Ok(regions)

\* format!("\"{}\"", line)
Quoted(line) == "\"" \o line \o "\""

\* The block entity compound that set_sign builds.
SignEntity(lines, x, y, z) ==
    VCompound([front_text |->
                   VCompound([messages |->
                                  VList(<<VString(Quoted(lines[1])),
                                          VString(Quoted(lines[2])),
                                          VString(Quoted(lines[3])),
                                          VString(Quoted(lines[4]))>>),
                              color |-> VString("black"),
                              has_glowing_text |-> VByte(0)]),
               id |-> VString("minecraft:sign"),
               is_waxed |-> VByte(0),
               keepPacked |-> VByte(0),
               x |-> VInt(x),
               y |-> VInt(y),
               z |-> VInt(z)])

\* The entity installed as the whole list, whatever the list held.
PushEntityAlone(other, entity) ==
    Put(other, "block_entities", VList(<<entity>>))

\* chunk.other after the entity is pushed onto, or installed as, the
\* "block_entities" list.
PushEntity(other, entity) ==
    IF "block_entities" \in DOMAIN other
    THEN IF other["block_entities"].t = "List"
         THEN [other EXCEPT !["block_entities"] = VList(Append(@.v, entity))]
         ELSE other
    ELSE Put(other, "block_entities", VList(<<entity>>))

\* WorldEditor::set_sign: the entity is recorded in the owning chunk, then
\* set_block(SIGN, x, y, z, None, None).
EditorSetSign(regions, sc, lines, x, y, z, rotation) ==
    LET rk == <<RegionOf(x), RegionOf(z)>>
        ck == <<LocalChunkOf(x), LocalChunkOf(z)>>
        r2 == Materialise(regions, rk, ck)
        r3 == [r2 EXCEPT ![rk].chunks[ck].other =
                   PushEntity(@, SignEntity(lines, x, y, z))]
    IN  EditorSetBlock(r3, sc, SIGN, x, y, z, None, None)

\* Corners taken as given, without normalising them.
MinMaxAsGiven(a, b) == <<a, b>>

\* The (min, max) of fill_blocks: if a < b { (a, b) } else { (b, a) }.
MinMax(a, b) == IF a < b THEN <<a, b>> ELSE <<b, a>>

\* The i-th cell (from 0) of the loops for x, for y, for z of fill_blocks.
FillCell(mx, my, mz, i) ==
    LET ny == my[2] - my[1] + 1
        nz == mz[2] - mz[1] + 1
    IN  <<mx[1] + (i \div (ny * nz)), my[1] + ((i \div nz) % ny), mz[1] + (i % nz)>>

\* Iterations lo..hi of the loops of fill_blocks, from the result res of the
\* iterations before; a panic ends the loops.
RECURSIVE FillLoop(_, _, _, _, _, _, _, _, _, _)
FillLoop(res, sc, block, mx, my, mz, whitelist, blacklist, lo, hi) ==
    IF res.panic \/ lo > hi THEN res
    ELSE IF lo = hi
    THEN LET c == FillCell(mx, my, mz, lo)
         IN  EditorSetBlock(res.val, sc, block, c[1], c[2], c[3],
                            whitelist, blacklist)
    ELSE LET mid == (lo + hi) \div 2
             half == FillLoop(res, sc, block, mx, my, mz,
                              whitelist, blacklist, lo, mid)
         IN  FillLoop(half, sc, block, mx, my, mz,
                      whitelist, blacklist, mid + 1, hi)

\* WorldEditor::fill_blocks.
EditorFillBlocks(regions, sc, block, x1, y1, z1, x2, y2, z2, wl, bl) ==
    LET mx == MinMax(x1, x2)
        my == MinMax(y1, y2)
        mz == MinMax(z1, z2)
        n == (mx[2] - mx[1] + 1) * (my[2] - my[1] + 1) * (mz[2] - mz[1] + 1)
    IN  FillLoop(Ok(regions), sc, block, mx, my, mz, wl, bl, 0, n - 1)

\* A check that applies the override policy of set_block: with a blacklist
\* alone it answers whether the block is absent from it.
EditorCheckAsPolicy(regions, x, y, z, whitelist, blacklist) ==
    LET got == WorldGetBlock(regions, x, y, z)
    IN  IF got.panic THEN Panic(FALSE)
        ELSE Ok(IsSome(got.val)
                /\ ShouldInsert(got.val, whitelist, blacklist))

\* WorldEditor::check_for_block: the returned bool.
EditorCheckForBlock(regions, x, y, z, whitelist, blacklist) ==
    LET got == WorldGetBlock(regions, x, y, z)
    IN  IF got.panic THEN Panic(FALSE)
        ELSE IF ~IsSome(got.val) THEN Ok(FALSE)
        ELSE IF IsSome(whitelist) /\ AnyId(Unwrap(whitelist), Unwrap(got.val))
             THEN Ok(TRUE)
        ELSE IF IsSome(blacklist) /\ AnyId(Unwrap(blacklist), Unwrap(got.val))
             THEN Ok(TRUE)
        ELSE Ok(FALSE)

(***************************************************************************)
(* The embedded region template (mcassets/region.template): 1024 chunks,   *)
(* each an NBT compound.  Two builds of the asset are considered.          *)
(***************************************************************************)
Slots == (0..31) \X (0..31)

TemplateSections ==
    <<[block_states |-> [palette |-> <<[Name |-> BlockName(AIR)]>>],
       Y |-> -4,
       biomes |-> VString("minecraft:plains")],
      [block_states |-> [palette |-> <<[Name |-> BlockName(STONE),
                                        Properties |-> VString("none")]>>,
                         data |-> <<{}>>],
       Y |-> 4]>>

\* The slots of template t whose chunk carries a compound value.
CompoundSlots(t) == IF t = 3 THEN {<<0, 0>>} ELSE {}

TemplateChunk(t, slot) ==
    IF t = 1
    THEN [sections |-> TemplateSections,
          xPos |-> slot[1],
          zPos |-> slot[2],
          isLightOn |-> 1,
          Status |-> VString("minecraft:full"),
          block_entities |-> VList(<<>>)]
    ELSE IF slot \in CompoundSlots(t)
    THEN [sections |-> TemplateSections,
          xPos |-> 0,
          zPos |-> 0,
          DataVersion |-> VInt(3465),
          structures |-> VCompound([References |-> VCompound(EmptyMap),
                                    starts |-> VCompound(EmptyMap)])]
    ELSE [sections |-> TemplateSections,
          xPos |-> 0,
          zPos |-> 0,
          DataVersion |-> VInt(3465)]

(***************************************************************************)
(* The serde schema: Chunk, Section, Blockstates, PaletteItem from and to  *)
(* NBT.  A known key fills its field, the other keys go to `other`; an     *)
(* Option that is None is not written.                                     *)
(***************************************************************************)
\* The entries of the compound n whose keys are not in known.
Rest(n, known) == [k \in DOMAIN n \ known |-> n[k]]

OptField(n, key) == IF key \in DOMAIN n THEN Some(n[key]) ELSE None

\* The compound of one optional field: empty for None.
OptEntry(key, o) == IF IsSome(o) THEN key :> Unwrap(o) ELSE EmptyMap

PaletteItemFromNbt(n) ==
    [name |-> n["Name"], properties |-> OptField(n, "Properties")]

PaletteItemToNbt(p) ==
    ("Name" :> p.name) @@ OptEntry("Properties", p.properties)

BlockstatesFromNbt(n) ==
    [palette |-> [k \in DOMAIN n["palette"] |->
                     PaletteItemFromNbt(n["palette"][k])],
     data |-> OptField(n, "data"),
     other |-> Rest(n, {"palette", "data"})]

BlockstatesToNbt(b) ==
    ("palette" :> [k \in DOMAIN b.palette |-> PaletteItemToNbt(b.palette[k])])
    @@ OptEntry("data", b.data) @@ b.other

SectionFromNbt(n) ==
    [block_states |-> BlockstatesFromNbt(n["block_states"]),
     y |-> n["Y"],
     other |-> Rest(n, {"block_states", "Y"})]

SectionToNbt(sec) ==
    ("block_states" :> BlockstatesToNbt(sec.block_states))
    @@ ("Y" :> sec.y) @@ sec.other

ChunkKeys == {"sections", "xPos", "zPos", "isLightOn"}

\* fastnbt::from_bytes::<Chunk>: isLightOn defaults to 0.
ChunkFromNbt(n) ==
    [sections |-> [k \in DOMAIN n["sections"] |->
                      SectionFromNbt(n["sections"][k])],
     x_pos |-> n["xPos"],
     z_pos |-> n["zPos"],
     is_light_on |-> IF "isLightOn" \in DOMAIN n THEN n["isLightOn"] ELSE 0,
     other |-> Rest(n, ChunkKeys)]

\* fastnbt::to_bytes(&chunk).
ChunkToNbt(chunk) ==
    ("sections" :> [k \in DOMAIN chunk.sections |->
                       SectionToNbt(chunk.sections[k])])
    @@ ("xPos" :> chunk.x_pos) @@ ("zPos" :> chunk.z_pos)
    @@ ("isLightOn" :> chunk.is_light_on) @@ chunk.other

(***************************************************************************)
(* WorldEditor::save.                                                      *)
(***************************************************************************)
\* create_region: the file is truncated and holds the template bytes.
CreateRegion(t) == [slot \in Slots |-> TemplateChunk(t, slot)]

\* chunk.other.extend(chunk_to_modify.other.clone())
Extend(other, more) == more @@ other

\* A chunk stamped with its slot alone, the region's offset forgotten.
StampLocal(chunk, slot, rk) ==
    [chunk EXCEPT !.x_pos = slot[1], !.z_pos = slot[2], !.is_light_on = 0]

\* chunk.x_pos, chunk.z_pos and chunk.is_light_on as save sets them.
Stamp(chunk, slot, rk) ==
    [chunk EXCEPT !.x_pos = slot[1] + rk[1] * 32,
                  !.z_pos = slot[2] + rk[2] * 32,
                  !.is_light_on = 0]

\* An overlay that installs `other` but keeps the template's sections.
OverlayOtherOnly(chunk, buffer, ys) ==
    [chunk EXCEPT !.other = Extend(@, buffer.other)]

\* An overlay that replaces the whole `other` bag by the buffer's.
OverlayReplaceOther(chunk, buffer, ys) ==
    [chunk EXCEPT !.sections = ChunkSections(buffer, ys),
                  !.other = buffer.other]

\* The decoded chunk with the chunk buffer's sections, iterated in the order
\* ys, and `other` laid over.
Overlay(chunk, buffer, ys) ==
    [chunk EXCEPT !.sections = ChunkSections(buffer, ys),
                  !.other = Extend(@, buffer.other)]

\* The body of the two loops over chunk_x and chunk_z for one slot: the
\* chunk read from the slot, patched, stamped and encoded again.
SaveChunk(file, region, slot, rk, ords) ==
    LET chunk == ChunkFromNbt(file[slot])
        patched == IF slot \in DOMAIN region.chunks
                   THEN Overlay(chunk, region.chunks[slot],
                                ords[<<rk, slot>>])
                   ELSE chunk
    IN  ChunkToNbt(Stamp(patched, slot, rk))

\* One region of the save loop: each slot is written back to itself.
SaveRegion(region, rk, t, ords) ==
    LET file == CreateRegion(t)
    IN  [slot \in Slots |-> SaveChunk(file, region, slot, rk, ords)]

\* A loop that stops after the first region.
SaveKeysFirstOnly(regions, seen) ==
    {IF keys = <<>> THEN keys ELSE <<keys[1]>> :
        keys \in MapIter(DOMAIN regions, seen)}

\* The orders in which the save loop may visit the region keys.
SaveKeys(regions, seen) == MapIter(DOMAIN regions, seen)

\* The (region, chunk) keys of the chunk buffers.
BufferChunks(regions) ==
    UNION {{<<rk, ck>> : ck \in DOMAIN regions[rk].chunks} :
             rk \in DOMAIN regions}

\* The orders in which sections() may iterate the sections map of the chunk
\* buffer at d.
SectionIter(regions, d, seen) ==
    MapIter(DOMAIN regions[d[1]].chunks[d[2]].sections,
            IF d \in DOMAIN seen THEN seen[d] ELSE <<>>)

\* One iteration order for the sections map of every chunk buffer.
SectionOrders(regions, seen) ==
    {ords \in [BufferChunks(regions) ->
                 UNION {SectionIter(regions, d, seen) :
                          d \in BufferChunks(regions)}] :
        \A d \in BufferChunks(regions) :
           ords[d] \in SectionIter(regions, d, seen)}

\* No hash map has been iterated yet.
IterNone == [regions |-> <<>>, sections |-> EmptyMap]

\* The compounds within the value v found at path: each with its key set.
\* A Value::Compound is a std HashMap<String, Value>.
RECURSIVE CompoundsIn(_, _)
CompoundsIn(v, path) ==
    IF v.t = "Compound"
    THEN {<<path, DOMAIN v.v>>}
         \cup UNION {CompoundsIn(v.v[k], Append(path, k)) : k \in DOMAIN v.v}
    ELSE IF v.t = "List"
    THEN UNION {CompoundsIn(v.v[n], Append(path, ToString(n))) :
                  n \in DOMAIN v.v}
    ELSE {}

\* The compounds within the values of the dictionary m.
CompoundsOf(m, path) ==
    UNION {CompoundsIn(m[k], Append(path, k)) : k \in DOMAIN m}

\* The compounds within the section sec decoded from the template.
SectionCompounds(sec, path) ==
    CompoundsOf(sec.other, Append(path, "other"))
    \cup CompoundsOf(sec.block_states.other, Append(path, "block_states"))
    \cup UNION {IF IsSome(sec.block_states.palette[j].properties)
                THEN CompoundsIn(Unwrap(sec.block_states.palette[j].properties),
                                 path \o <<"palette", ToString(j)>>)
                ELSE {} : j \in DOMAIN sec.block_states.palette}

\* The compounds that from_bytes builds anew at this save and to_bytes
\* writes back for one slot: those of the template chunk's `other` under
\* the keys the chunk buffer does not replace, and those of the template's
\* sections where no chunk buffer replaces the sections.  The values that
\* come from the chunk buffer are clones, which keep the order of the map
\* they are cloned from.
FreshCompounds(file, region, slot) ==
    LET chunk == ChunkFromNbt(file[slot])
        buffered == slot \in DOMAIN region.chunks
        replaced == IF buffered THEN DOMAIN region.chunks[slot].other ELSE {}
    IN  CompoundsOf(Rest(chunk.other, replaced), <<"other">>)
        \cup (IF buffered THEN {}
              ELSE UNION {SectionCompounds(chunk.sections[n],
                                           <<"sections", ToString(n)>>) :
                            n \in DOMAIN chunk.sections})

\* The orders in which the compounds cs may be written: a new std HashMap
\* has a hasher seeded for that map alone, so each may iterate in any order
\* of its keys at each save.
Layouts(cs) ==
    {f \in [{c[1] : c \in cs} -> UNION {Perms(c[2]) : c \in cs}] :
        \A c \in cs : f[c[1]] \in Perms(c[2])}

\* The ways one region file may be laid out, slot by slot; a slot whose
\* chunk holds no such compound has nothing to choose, and only the slots
\* in CompoundSlots(t) can hold one.
RegionLayouts(region, t) ==
    LET file == CreateRegion(t)
        rich == {slot \in CompoundSlots(t) :
                   FreshCompounds(file, region, slot) # {}}
    IN  {f \in [rich -> UNION {Layouts(FreshCompounds(file, region, slot)) :
                                 slot \in rich}] :
            \A slot \in rich :
               f[slot] \in Layouts(FreshCompounds(file, region, slot))}

\* One layout for the file of every region of the buffer.
SaveLayouts(regions, t) ==
    {f \in [DOMAIN regions -> UNION {RegionLayouts(regions[rk], t) :
                                       rk \in DOMAIN regions}] :
        \A rk \in DOMAIN regions : f[rk] \in RegionLayouts(regions[rk], t)}

\* The layouts of the region directory after a save that wrote lay.
LayoutAfterSave(old, lay) ==
    [rk \in DOMAIN old \cup DOMAIN lay |->
        IF rk \in DOMAIN lay THEN lay[rk] ELSE old[rk]]

\* The world buffer after save: the loop only borrows it.
WorldAfterSave(regions) == regions

\* The region directory after the save loop over keys[k..]: the file of a
\* visited key is replaced, any other file is left as it is.
RECURSIVE SaveLoop(_, _, _, _, _, _)
SaveLoop(dir, regions, keys, k, t, ords) ==
    IF k > Len(keys) THEN dir
    ELSE SaveLoop(Put(dir, keys[k],
                      SaveRegion(regions[keys[k]], keys[k], t, ords)),
                  regions, keys, k + 1, t, ords)

(***************************************************************************)
(* The progress counter of save.  An f64 >= 0 is the set of the positions  *)
(* of its one bits, position FracBits being the unit and positions below   *)
(* zero standing for the powers of two under 2^-FracBits: every finite     *)
(* f64 the counter takes is held exactly.                                  *)
(***************************************************************************)
FracBits == 60
MantissaBits == 53

\* The f64 of a small non-negative integer.
F64OfInt(k) == {j + FracBits : j \in {i \in 0..30 : (k \div Pow2(i)) % 2 = 1}}

\* 9.0 / 0.0
F64Inf == "inf"

TopBit(S) == CHOOSE h \in S : \A k \in S : k <= h

\* S + 2^p, exactly.
RECURSIVE AddBit(_, _)
AddBit(S, p) == IF p \in S THEN AddBit(S \ {p}, p + 1) ELSE S \cup {p}

\* S - 2^p, exactly, for S >= 2^p.
RECURSIVE SubBit(_, _)
SubBit(S, p) == IF p \in S THEN S \ {p} ELSE SubBit(S \cup {p}, p + 1)

\* A + B, exactly.
RECURSIVE AddBits(_, _)
AddBits(A, B) ==
    IF B = {} THEN A
    ELSE LET p == TopBit(B) IN AddBits(AddBit(A, p), B \ {p})

\* A - B, exactly, for A >= B.
RECURSIVE SubBits(_, _)
SubBits(A, B) ==
    IF B = {} THEN A
    ELSE LET p == TopBit(B) IN SubBits(SubBit(A, p), B \ {p})

\* a < b
F64Less(a, b) ==
    LET D == (a \ b) \cup (b \ a) IN D # {} /\ TopBit(D) \in b

\* The exact value S (plus a non-zero remainder below every position when
\* sticky) rounded to the nearest f64, ties to even: 53 significant bits.
RoundF64(S, sticky) ==
    IF S = {} THEN {}
    ELSE LET u == (TopBit(S) - MantissaBits) + 1
             kept == {k \in S : k >= u}
             half == (u - 1) \in S
             rest == sticky \/ \E k \in S : k < u - 1
         IN  IF half /\ (rest \/ u \in S) THEN AddBit(kept, u) ELSE kept

\* a + b on f64.
F64Add(a, b) == RoundF64(AddBits(a, b), FALSE)

\* (a - b).abs() on f64.
F64AbsDiff(a, b) ==
    RoundF64(IF F64Less(a, b) THEN SubBits(b, a) ELSE SubBits(a, b), FALSE)

\* Long division of the bits of a > 0, from position k down, by the
\* integer n > 0.  It stops once the quotient has its 53 significant bits
\* and the bit below them: the quotient's bits, the remainder, and whether
\* a has one bits that were not divided.
RECURSIVE DivLoop(_, _, _, _, _)
DivLoop(a, n, k, rem, q) ==
    IF q # {} /\ k < TopBit(q) - MantissaBits
    THEN [q |-> q, rem |-> rem, low |-> \E j \in a : j <= k]
    ELSE LET r == 2 * rem + (IF k \in a THEN 1 ELSE 0)
         IN  IF r >= n THEN DivLoop(a, n, k - 1, r - n, q \cup {k})
             ELSE DivLoop(a, n, k - 1, r, q)

\* a / (n as f64) on f64, for a > 0.
F64DivInt(a, n) ==
    IF n = 0 THEN F64Inf
    ELSE LET d == DivLoop(a, n, TopBit(a), 0, {})
         IN  RoundF64(d.q, d.rem # 0 \/ d.low)

\* total_steps / total_regions as f64
ProgressIncrement(n) == F64DivInt(F64OfInt(9), n)

\* 0.25
Quarter == {FracBits - 2}

\* The state of save before its loop: emit(90.0), the increment, the
\* counter and the last emitted value; i counts the regions done.
ProgressInit(n) ==
    [n |-> n, i |-> 0, inc |-> ProgressIncrement(n),
     cur |-> F64OfInt(90), last |-> F64OfInt(90),
     emitted |-> <<F64OfInt(90)>>]

\* The end of one iteration of the loop over the regions.
ProgressIter(st) ==
    LET cur == F64Add(st.cur, st.inc)
        emit == F64Less(Quarter, F64AbsDiff(cur, st.last))
    IN  [st EXCEPT !.i = @ + 1,
                   !.cur = cur,
                   !.last = IF emit THEN cur ELSE @,
                   !.emitted = IF emit THEN Append(@, cur) ELSE @]

\* The loop over the regions left.
RECURSIVE ProgressRun(_)
ProgressRun(st) == IF st.i >= st.n THEN st ELSE ProgressRun(ProgressIter(st))

ProgIdle == ProgressInit(0)

(***************************************************************************)
(* Inputs.                                                                 *)
(***************************************************************************)
MaxOps == 2
MaxSaveOps == 3
DecompSpan == 3
MaxOffset == 2

NoLists == [wl |-> None, bl |-> None]

\* Every combination of an absent, matching or non-matching list.
ListChoices == {None, Some(<<STONE>>), Some(<<PLANKS, DIRT>>)}

SetArgs(block, x, y, z, wl, bl) ==
    [block |-> block, x |-> x, y |-> y, z |-> z, wl |-> wl, bl |-> bl]

\* (x, z) inside and outside the bounds, in several chunks and regions.
Points ==
    {<<16, 0>>, <<0, 16>>, <<512, 0>>, <<512, 16>>,
     <<-1, 0>>, <<0, -1>>, <<513, 0>>, <<0, 17>>}

\* Heights whose section index is the least and the greatest i8, and the
\* nearest ones that do not fit.
Heights == {-1, 2047, -2048, 2048, -2049}

EditSetInputs ==
    {SetArgs(DIRT, 0, 64, 0, wl, bl) :
        wl \in ListChoices, bl \in ListChoices}
    \cup {SetArgs(STONE, 0, 64, 0, None, None),
          SetArgs(STONE, 0, 64, 0, Some(<<PLANKS, DIRT>>), None),
          SetArgs(AIR, 0, 64, 0, None, None)}
    \cup {SetArgs(STONE, pt[1], 64, pt[2], None, None) : pt \in Points}
    \cup {SetArgs(DIRT, 0, y, 0, None, None) : y \in Heights}
    \cup {SetArgs(DIRT, 512, 2047, 16, None, None),
          SetArgs(STONE, 513, 2048, 0, None, None),
          SetArgs(DIRT, -1, 64, 0, Some(<<STONE>>), None),
          SetArgs(AIR, 0, -2049, 17, None, Some(<<DIRT>>))}

SaveSetInputs ==
    {SetArgs(STONE, 5, 64, 5, None, None),
     SetArgs(STONE, 5, 80, 5, None, None),
     SetArgs(PLANKS, 512, -1, 17, None, None)}

SignLines == <<"a", "b", "c", "d">>

SignArgs(x, y, z, rotation) ==
    [lines |-> SignLines, x |-> x, y |-> y, z |-> z, rotation |-> rotation]

EditSignInputs ==
    {SignArgs(10, 70, 10, 0), SignArgs(10, 70, 10, 4), SignArgs(0, 64, 0, 0),
     SignArgs(-1, 64, -1, 0)}

SaveSignInputs == {SignArgs(10, 70, 10, 0), SignArgs(-1, 64, -1, 0)}

FillArgs(block, x1, y1, z1, x2, y2, z2, wl, bl) ==
    [block |-> block, x1 |-> x1, y1 |-> y1, z1 |-> z1,
     x2 |-> x2, y2 |-> y2, z2 |-> z2, wl |-> wl, bl |-> bl]

EditFillInputs ==
    {FillArgs(STONE, 0, 64, 0, 1, 65, 1, None, None),
     FillArgs(STONE, 1, 65, 1, 0, 64, 0, None, None),
     FillArgs(DIRT, 0, 64, 16, -1, 64, 17, None, Some(<<DIRT>>)),
     FillArgs(DIRT, 0, 2047, 0, 0, 2048, 0, Some(<<STONE>>), None)}

CheckArgs(x, y, z, wl, bl) == [x |-> x, y |-> y, z |-> z, wl |-> wl, bl |-> bl]

EditCheckInputs ==
    {CheckArgs(0, 64, 0, None, None),
     CheckArgs(0, 64, 0, Some(<<STONE>>), None),
     CheckArgs(0, 64, 0, None, Some(<<STONE>>)),
     CheckArgs(0, 64, 0, Some(<<PLANKS, DIRT>>), Some(<<STONE>>)),
     CheckArgs(16, 64, 0, Some(<<STONE>>), None),
     CheckArgs(0, 2048, 0, Some(<<STONE>>), None)}

(***************************************************************************)
(* The editor as a state machine.                                          *)
(***************************************************************************)
LastNew == [op |-> "new", args |-> NoLists, pre |-> EmptyMap, ret |-> None]

InitWith(scales, templates) ==
    /\ world = EmptyMap
    /\ scale \in scales
    /\ template \in templates
    /\ files = EmptyMap
    /\ panicked = FALSE
    /\ last = LastNew
    /\ nops = 0

\* A call to set_block.
SetBlock(inputs, bound) ==
    /\ ~panicked
    /\ nops < bound
    /\ \E a \in inputs :
          LET res == EditorSetBlock(world, scale, a.block, a.x, a.y, a.z,
                                    a.wl, a.bl)
          IN  /\ world' = res.val
              /\ panicked' = res.panic
              /\ last' = [op |-> "set_block", args |-> a, pre |-> world,
                          ret |-> None]
    /\ nops' = nops + 1
    /\ UNCHANGED <<scale, template, files, dec, enc, prog, iter, layout>>

\* A call to fill_blocks.
FillBlocks(inputs, bound) ==
    /\ ~panicked
    /\ nops < bound
    /\ \E a \in inputs :
          LET res == EditorFillBlocks(world, scale, a.block, a.x1, a.y1, a.z1,
                                      a.x2, a.y2, a.z2, a.wl, a.bl)
          IN  /\ world' = res.val
              /\ panicked' = res.panic
              /\ last' = [op |-> "fill_blocks", args |-> a, pre |-> world,
                          ret |-> None]
    /\ nops' = nops + 1
    /\ UNCHANGED <<scale, template, files, dec, enc, prog, iter, layout>>

\* A call to set_sign.
SetSign(inputs, bound) ==
    /\ ~panicked
    /\ nops < bound
    /\ \E a \in inputs :
          LET res == EditorSetSign(world, scale, a.lines, a.x, a.y, a.z,
                                   a.rotation)
          IN  /\ world' = res.val
              /\ panicked' = res.panic
              /\ last' = [op |-> "set_sign", args |-> a, pre |-> world,
                          ret |-> None]
    /\ nops' = nops + 1
    /\ UNCHANGED <<scale, template, files, dec, enc, prog, iter, layout>>

\* A call to check_for_block.
CheckForBlock(inputs, bound) ==
    /\ ~panicked
    /\ nops < bound
    /\ \E a \in inputs :
          LET res == EditorCheckForBlock(world, a.x, a.y, a.z, a.wl, a.bl)
          IN  /\ panicked' = res.panic
              /\ last' = [op |-> "check_for_block", args |-> a, pre |-> world,
                          ret |-> Some(res.val)]
    /\ nops' = nops + 1
    /\ UNCHANGED <<world, scale, template, files, dec, enc, prog, iter, layout>>

\* A call to save: the files of the visited regions are rewritten.
Save(bound) ==
    /\ ~panicked
    /\ nops < bound
    /\ \E keys \in SaveKeys(world, iter.regions),
          ords \in SectionOrders(world, iter.sections),
          lay \in SaveLayouts(world, template) :
          /\ files' = SaveLoop(files, world, keys, 1, template, ords)
          /\ layout' = LayoutAfterSave(layout, lay)
          /\ iter' = [regions |-> keys, sections |-> ords]
          /\ last' = [op |-> "save", args |-> [again |-> last.op = "save"],
                      pre |-> world, ret |-> Some(keys)]
    /\ world' = WorldAfterSave(world)
    /\ prog' = ProgressRun(ProgressInit(Cardinality(DOMAIN world)))
    /\ nops' = nops + 1
    /\ UNCHANGED <<scale, template, panicked, dec, enc>>

EditScales == {<<1025, 33>>}

DecIdle == [x |-> 0, z |-> 0, out |-> None]
EncIdle == [blocks |-> <<>>, out |-> None]

Init ==
    InitWith(EditScales, {1}) /\ dec = DecIdle /\ enc = EncIdle
    /\ prog = ProgIdle
    /\ iter = IterNone
    /\ layout = EmptyMap

Next ==
    \/ SetBlock(EditSetInputs, MaxOps)
    \/ FillBlocks(EditFillInputs, MaxOps)
    \/ SetSign(EditSignInputs, MaxOps)
    \/ CheckForBlock(EditCheckInputs, MaxOps)

Spec == Init /\ [][Next]_vars

InitSave ==
    InitWith({<<1025, 1025>>}, {1, 2}) /\ dec = DecIdle /\ enc = EncIdle
    /\ prog = ProgIdle
    /\ iter = IterNone
    /\ layout = EmptyMap

NextSave ==
    \/ SetBlock(SaveSetInputs, MaxSaveOps)
    \/ SetSign(SaveSignInputs, MaxSaveOps)
    \/ Save(MaxSaveOps)

SpecSave == InitSave /\ [][NextSave]_vars

(***************************************************************************)
(* Saving again: a template whose chunk at slot (0, 0) carries a compound  *)
(* of two keys, writes to two sections of one chunk and a sign, and room   *)
(* for two writes before two saves.                                        *)
(***************************************************************************)
MaxResaveOps == 4

ResaveSetInputs ==
    {SetArgs(STONE, 5, 64, 5, None, None),
     SetArgs(STONE, 5, 80, 5, None, None)}

ResaveSignInputs == {SignArgs(10, 70, 10, 0)}

InitResave ==
    InitWith({<<1025, 1025>>}, {3}) /\ dec = DecIdle /\ enc = EncIdle
    /\ prog = ProgIdle
    /\ iter = IterNone
    /\ layout = EmptyMap

NextResave ==
    \/ SetBlock(ResaveSetInputs, MaxResaveOps)
    \/ SetSign(ResaveSignInputs, MaxResaveOps)
    \/ Save(MaxResaveOps)

SpecResave == InitResave /\ [][NextResave]_vars

(***************************************************************************)
(* The coordinate decomposition on its own: x and z are drawn around the   *)
(* chunk and region boundaries and the ends of the i32 range.              *)
(***************************************************************************)
DecompAnchors ==
    {((-2147483647) - 1) + DecompSpan, -8192, -512, -16, 0, 16, 512, 8192,
     2147483647 - DecompSpan}

DecompInputs ==
    {a + d : a \in DecompAnchors, d \in (-DecompSpan)..DecompSpan}

\* The (region, local chunk, local block) of one coordinate.
Decompose(x) == <<RegionOf(x), LocalChunkOf(x), LocalBlockOf(x)>>

InitDecomp ==
    /\ InitWith(EditScales, {1})
    /\ dec \in [x : DecompInputs, z : DecompInputs, out : {None}]
    /\ enc = EncIdle
    /\ prog = ProgIdle
    /\ iter = IterNone
    /\ layout = EmptyMap

DecomposeStep ==
    /\ dec.out = None
    /\ dec' = [dec EXCEPT !.out = Some([x |-> Decompose(dec.x),
                                        z |-> Decompose(dec.z)])]
    /\ UNCHANGED <<world, scale, template, files, panicked, last, nops, enc,
                   prog, iter, layout>>

SpecDecomp == InitDecomp /\ [][DecomposeStep]_vars

(***************************************************************************)
(* The section encoder on its own: section buffers of 1 to MaxKinds kinds  *)
(* of block in several layouts, and sparse ones made by set_block.         *)
(***************************************************************************)
MaxKinds == 33

KindCounts == {1, 2, 3, 16, 17, 32, MaxKinds}

\* n kinds in runs of `run` cells, starting from kind `off`.
Striped(n, run, off) ==
    [i \in 0..(SectionLen - 1) |-> ((i \div run) + off) % n]

\* A section with one STONE at (5, 0, 5) and one block b at (x, y, z).
Sparse(b, x, y, z) ==
    SectionSetBlock(SectionSetBlock(SectionDefault, 5, 0, 5, STONE), x, y, z, b)

EncodeInputs ==
    {Striped(n, run, off) : n \in KindCounts, run \in {1, 7}, off \in 0..MaxOffset}
    \cup {Sparse(b, c, 15 - c, c) : b \in {PLANKS, AIR, STONE, DIRT}, c \in {0, 5, 15}}

InitEncode ==
    /\ InitWith(EditScales, {1})
    /\ dec = DecIdle
    /\ enc \in [blocks : EncodeInputs, out : {None}]
    /\ prog = ProgIdle
    /\ iter = IterNone
    /\ layout = EmptyMap

EncodeStep ==
    /\ enc.out = None
    /\ \E y \in {-4, 4} :
          enc' = [enc EXCEPT !.out = Some(to_section(enc.blocks, y))]
    /\ UNCHANGED <<world, scale, template, files, panicked, last, nops, dec,
                   prog, iter, layout>>

SpecEncode == InitEncode /\ [][EncodeStep]_vars

(***************************************************************************)
(* The progress of save on its own: a buffer of 0 to MaxRegions regions,   *)
(* or of ManyRegions, one step for each region of the loop.               *)
(***************************************************************************)
MaxRegions == 13

\* A buffer of many regions: the increment is below 2^-7.
ManyRegions == 1153

InitProgress ==
    /\ InitWith(EditScales, {1})
    /\ dec = DecIdle
    /\ enc = EncIdle
    /\ prog \in {ProgressInit(n) : n \in (0..MaxRegions) \cup {ManyRegions}}
    /\ iter = IterNone
    /\ layout = EmptyMap

ProgressStep ==
    /\ prog.i < prog.n
    /\ prog' = ProgressIter(prog)
    /\ UNCHANGED <<world, scale, template, files, panicked, last, nops, dec,
                   enc, iter, layout>>

SpecProgress == InitProgress /\ [][ProgressStep]_vars

(***************************************************************************)
(* Properties.  What a property says of the code is read off the state:    *)
(* `last` holds the call, `last.pre` the buffer before it, `world` the     *)
(* buffer after it.                                                        *)
(***************************************************************************)
\* floor of a scale factor held in halves.
Floor(h) == h \div 2

InBounds(x, z) ==
    x >= 0 /\ x <= Floor(scale[1]) /\ z >= 0 /\ z <= Floor(scale[2])

\* The section index of y fits a signed byte.
SectionFits(y) == (y \div 16) \in -128..127

Ids(list) == {BlockId(list[i]) : i \in DOMAIN list}

\* The lists permit replacing an existing block e.
Permitted(e, wl, bl) ==
    \/ wl # None /\ BlockId(e) \in Ids(Unwrap(wl))
    \/ wl = None /\ bl # None /\ BlockId(e) \notin Ids(Unwrap(bl))

\* A read of the buffer at (x, y, z).
Read(regions, x, y, z) == WorldGetBlock(regions, x, y, z).val

ReadAt(regions, a) == Read(regions, a.x, a.y, a.z)

\* The cell holds block b: a read returns it, or nothing for AIR.
Holds(regions, a, b) == ReadAt(regions, a) = IF b = AIR THEN None ELSE Some(b)

\* C1: set_block on an in-bounds cell that holds a block e installs the new
\* block exactly when a whitelist is given and contains e's id, or no
\* whitelist is given and a blacklist is given that does not contain e's id;
\* in every other case the cell still holds e.
C1_OverridePolicy ==
    (/\ last.op = "set_block"
     /\ InBounds(last.args.x, last.args.z)
     /\ ReadAt(last.pre, last.args) # None)
    => \A e \in {Unwrap(ReadAt(last.pre, last.args))} :
          /\ ~panicked
          /\ IF Permitted(e, last.args.wl, last.args.bl)
             THEN Holds(world, last.args, last.args.block)
             ELSE Holds(world, last.args, e)

\* Both lists are given, the whitelist contains the existing STONE and so
\* does the blacklist: the whitelist decides and DIRT is installed.
C1_Witness ==
    /\ last.op = "set_block"
    /\ ReadAt(last.pre, last.args) = Some(STONE)
    /\ last.args.wl = Some(<<STONE>>)
    /\ last.args.bl = Some(<<STONE>>)
    /\ ReadAt(world, last.args) = Some(DIRT)

\* C2: after set_block of a block other than AIR, in bounds, at a height
\* whose section index fits a signed byte and with no override conflict, a
\* read at the same coordinates returns that block.
C2_WriteRead ==
    (/\ last.op = "set_block"
     /\ last.args.block # AIR
     /\ InBounds(last.args.x, last.args.z)
     /\ SectionFits(last.args.y)
     /\ \/ ReadAt(last.pre, last.args) = None
        \/ Permitted(Unwrap(ReadAt(last.pre, last.args)),
                     last.args.wl, last.args.bl))
    => /\ ~panicked
       /\ ReadAt(world, last.args) = Some(last.args.block)

\* A write in the second region at the greatest height, after an earlier
\* write elsewhere, is read back.
C2_Witness ==
    /\ last.op = "set_block"
    /\ last.args.x = 512
    /\ last.args.y = 2047
    /\ last.pre # EmptyMap
    /\ ReadAt(world, last.args) = Some(DIRT)
    /\ <<1, 0>> \in DOMAIN world

\* C3: set_block outside the bounds changes nothing in the buffer, whatever
\* the height, block and lists; a coordinate equal to floor(sx) or floor(sz)
\* is inside the bounds and the write goes through.
C3_OutOfBoundsNoOp ==
    last.op = "set_block"
    => /\ ~InBounds(last.args.x, last.args.z)
          => world = last.pre /\ ~panicked
       /\ (/\ InBounds(last.args.x, last.args.z)
           /\ last.args.x = Floor(scale[1]) \/ last.args.z = Floor(scale[2])
           /\ last.args.block # AIR
           /\ SectionFits(last.args.y)
           /\ ReadAt(last.pre, last.args) = None)
          => ReadAt(world, last.args) = Some(last.args.block)

\* A write beyond floor(sx), at a height that would overflow the section
\* index, on a buffer that already holds something.
C3_Witness ==
    /\ last.op = "set_block"
    /\ last.args.x = 513
    /\ last.args.y = 2048
    /\ world # EmptyMap
    /\ world = last.pre
    /\ ~panicked

\* t = (r, c, l) is a decomposition of x.  Any decomposition of an i32 has
\* r within 22 bits, so the recomposition stays within the i32 range.
IsDecomposition(t, x) ==
    /\ t[1] \in (-4194304)..4194303
    /\ t[2] \in 0..31
    /\ t[3] \in 0..15
    /\ (t[1] * 32 + t[2]) * 16 + t[3] = x

\* C4: for every i32 x, r = (x>>4)>>5, c = (x>>4)&31, l = x&15 satisfy
\* c in [0,32), l in [0,16) and (r*32 + c)*16 + l = x, so that no other
\* coordinate has the same (r, c, l); likewise for z.
C4_DecomposeRoundTrip ==
    dec.out # None
    => \A d \in {Unwrap(dec.out)} :
          /\ IsDecomposition(d.x, dec.x)
          /\ IsDecomposition(d.z, dec.z)
          /\ \A v \in DecompInputs :
                /\ Decompose(v) = d.x => v = dec.x
                /\ Decompose(v) = d.z => v = dec.z

\* x just below a region boundary on the negative side, z the least i32.
C4_Witness ==
    /\ dec.x = -513
    /\ dec.z = (-2147483647) - 1
    /\ dec.out = Some([x |-> <<-2, 31, 15>>, z |-> <<-4194304, 0, 0>>])

\* The kinds of block in a section buffer.
Kinds(blocks) == {blocks[i] : i \in DOMAIN blocks}

\* ceil(log2(n)) for 1 <= n <= 4096.
CeilLog2(n) == CHOOSE e \in 0..12 : Pow2(e) >= n /\ (e = 0 \/ Pow2(e - 1) < n)

Max(a, b) == IF a >= b THEN a ELSE b

\* The one bits of the number p < 4096.
Bits(p) == {j \in 0..11 : (p \div Pow2(j)) % 2 = 1}

\* The bpb bits at bit offset off of the word w, as a number's one bits.
Field(w, off, bpb) == {j \in 0..(bpb - 1) : (off + j) \in w}

\* The palette is the kinds of the buffer, ascending, each once.
IsSortedPalette(palette, kinds) ==
    /\ Len(palette) = Cardinality(kinds)
    /\ \A n \in DOMAIN palette :
          \E b \in kinds :
             /\ palette[n] = PaletteItem(b)
             /\ Cardinality({c \in kinds : c < b}) = n - 1

\* Every cell of the buffer is recovered from the long array: cell
\* i = y*256 + z*16 + x is in word floor(i/k) at bit offset (i mod k)*bpb.
Decodes(blocks, palette, data, bpb, k) ==
    \A x \in 0..15, y \in 0..15, z \in 0..15 :
       \A i \in {y * 256 + z * 16 + x} :
          /\ (i \div k) + 1 \in DOMAIN data
          /\ ((i % k) * bpb) + bpb <= WordBits
          /\ \E n \in DOMAIN palette :
                /\ Field(data[(i \div k) + 1], (i % k) * bpb, bpb) = Bits(n - 1)
                /\ palette[n] = PaletteItem(blocks[i])

\* No bit is set outside the fields of the cells.
UnusedBitsZero(data, bpb, k) ==
    \A n \in DOMAIN data :
       data[n] \subseteq
          0..((IF n * k <= SectionLen THEN k ELSE SectionLen - (n - 1) * k) * bpb - 1)

\* C5: the encoder emits the sorted de-duplicated kinds of the buffer as
\* palette and, with bpb = max(4, ceil(log2(|palette|))) and
\* k = floor(64/bpb), a long array of ceil(4096/k) words in which the field
\* of cell i = y*256 + z*16 + x is the palette index of the cell's block; no
\* field straddles two words and the bits outside the fields are zero.
C5_EncodeDecodes ==
    enc.out # None
    => \A s \in {Unwrap(enc.out)} :
       \A bpb \in {Max(4, CeilLog2(Len(s.block_states.palette)))} :
       \A k \in {WordBits \div bpb} :
       \A data \in {Unwrap(s.block_states.data)} :
          /\ IsSortedPalette(s.block_states.palette, Kinds(enc.blocks))
          /\ Len(data) = (SectionLen + k - 1) \div k
          /\ bpb = 4 => Len(data) = 256
          /\ Decodes(enc.blocks, s.block_states.palette, data, bpb, k)
          /\ UnusedBitsZero(data, bpb, k)

\* Seventeen kinds: five bits per block, twelve cells per word, the top
\* four bits of a word unused, 342 words.
C5_Witness ==
    /\ enc.out # None
    /\ Len(Unwrap(enc.out).block_states.palette) = 17
    /\ Len(Unwrap(Unwrap(enc.out).block_states.data)) = 342
    /\ enc.blocks[0] # enc.blocks[1]

\* The origins of the sections that the calls of the save scenario address.
ProbeSections ==
    {<<a.x - (a.x % 16), a.y - (a.y % 16), a.z - (a.z % 16)>> :
        a \in SaveSetInputs \cup SaveSignInputs}

\* The name that a saved section gives for the cell (lx, ly, lz).
CellDecodesTo(sec, lx, ly, lz, name) ==
    \A palette \in {sec["block_states"]["palette"]} :
    \A bpb \in {Max(4, CeilLog2(Len(palette)))} :
    \A k \in {WordBits \div bpb} :
    \A i \in {ly * 256 + lz * 16 + lx} :
       \E n \in DOMAIN palette :
          /\ Field(sec["block_states"]["data"][(i \div k) + 1],
                   (i % k) * bpb, bpb) = Bits(n - 1)
          /\ palette[n]["Name"] = name

\* The saved sections of section index sy in a saved chunk.
SavedSections(chunk, sy) ==
    {n \in DOMAIN chunk["sections"] : chunk["sections"][n]["Y"] = sy}

\* The blocks the buffer holds in the section at origin o are in the file:
\* region file (x>>9, z>>9), slot ((x>>4)&31, (z>>4)&31), section Y = y>>4,
\* and the cells of that section that hold nothing decode to air.
SectionSaved(o) ==
    (\E lx \in 0..15, ly \in 0..15, lz \in 0..15 :
        Read(world, o[1] + lx, o[2] + ly, o[3] + lz) # None)
    => \A rk \in {<<o[1] \div 512, o[3] \div 512>>} :
       \A slot \in {<<(o[1] \div 16) % 32, (o[3] \div 16) % 32>>} :
          /\ rk \in DOMAIN files
          /\ \E n \in SavedSections(files[rk][slot], o[2] \div 16) :
                \A lx \in 0..15, ly \in 0..15, lz \in 0..15 :
                   \A got \in {Read(world, o[1] + lx, o[2] + ly, o[3] + lz)} :
                      CellDecodesTo(files[rk][slot]["sections"][n], lx, ly, lz,
                                    BlockName(IF got = None THEN AIR
                                              ELSE Unwrap(got)))

\* C6: after save, a block held in the buffer at (x, y, z) is found in
\* region file (x>>9, z>>9), chunk slot ((x>>4)&31, (z>>4)&31), section
\* Y = y>>4, cell (x&15, y&15, z&15), the other cells of the section decode
\* to air, and the sections list of a chunk with a chunk buffer has exactly
\* one section per materialised section index and nothing else.
C6_SavedSectionsDecode ==
    last.op = "save"
    => /\ \A o \in ProbeSections : SectionSaved(o)
       /\ \A rk \in DOMAIN world :
             \A slot \in DOMAIN world[rk].chunks :
                /\ rk \in DOMAIN files
                /\ Len(files[rk][slot]["sections"])
                      = Cardinality(DOMAIN world[rk].chunks[slot].sections)
                /\ \A sy \in DOMAIN world[rk].chunks[slot].sections :
                      Cardinality(SavedSections(files[rk][slot], sy)) = 1

\* One STONE at (5, 64, 5) and nothing else: region (0, 0), chunk (0, 0),
\* one section with Y = 4, two palette entries, 256 words.
C6_Witness ==
    /\ last.op = "save"
    /\ DOMAIN world = {<<0, 0>>}
    /\ DOMAIN world[<<0, 0>>].chunks = {<<0, 0>>}
    /\ Read(world, 5, 64, 5) = Some(STONE)
    /\ Read(world, 10, 70, 10) = None
    /\ \A secs \in {files[<<0, 0>>][<<0, 0>>]["sections"]} :
          /\ Len(secs) = 1
          /\ secs[1]["Y"] = 4
          /\ Len(secs[1]["block_states"]["palette"]) = 2
          /\ Len(secs[1]["block_states"]["data"]) = 256
          /\ CellDecodesTo(secs[1], 5, 0, 5, BlockName(STONE))

\* C7: in every region file written for region (rx, rz), each of the 1024
\* slots (cx, cz) holds a chunk with xPos = cx + rx*32, zPos = cz + rz*32
\* and isLightOn = 0, with or without a chunk buffer and for negative rx, rz.
C7_ChunkStamped ==
    \A rk \in DOMAIN files :
       /\ DOMAIN files[rk] = Slots
       /\ \A slot \in Slots :
             /\ files[rk][slot]["xPos"] = slot[1] + rk[1] * 32
             /\ files[rk][slot]["zPos"] = slot[2] + rk[2] * 32
             /\ files[rk][slot]["isLightOn"] = 0

\* A file of the region (-1, -1), whose slot (31, 31) has a chunk buffer
\* and whose slot (0, 0) has none, built from the template that stores no
\* isLightOn and a zero xPos.
C7_Witness ==
    /\ last.op = "save"
    /\ template = 2
    /\ <<-1, -1>> \in DOMAIN files
    /\ DOMAIN world[<<-1, -1>>].chunks = {<<31, 31>>}
    /\ files[<<-1, -1>>][<<31, 31>>]["xPos"] = -1
    /\ files[<<-1, -1>>][<<0, 0>>]["zPos"] = -32

\* The keys of a saved chunk that save may change at slot `slot` of rk.
Overridden(rk, slot) ==
    {"sections", "xPos", "zPos", "isLightOn"}
    \cup (IF rk \in DOMAIN world /\ slot \in DOMAIN world[rk].chunks
          THEN DOMAIN world[rk].chunks[slot].other
          ELSE {})

\* C8: after save, every chunk field other than sections, xPos, zPos,
\* isLightOn and the keys of the chunk buffer's `other` equals the
\* template's value for the slot; in a slot with no chunk buffer the
\* sections are the template's too.
C8_TemplatePassthrough ==
    last.op = "save"
    => \A rk \in DOMAIN files :
          \A slot \in Slots :
             \A saved \in {files[rk][slot]} :
             \A tpl \in {TemplateChunk(template, slot)} :
                /\ \A key \in (DOMAIN saved \cup DOMAIN tpl) \ Overridden(rk, slot) :
                      /\ key \in DOMAIN saved
                      /\ key \in DOMAIN tpl
                      /\ saved[key] = tpl[key]
                /\ slot \notin DOMAIN world[rk].chunks
                      => saved["sections"] = tpl["sections"]

\* A chunk with a sign: block_entities comes from the buffer, Status is
\* the template's, and a slot without chunk buffer keeps the sections.
C8_Witness ==
    /\ last.op = "save"
    /\ template = 1
    /\ <<0, 0>> \in DOMAIN files
    /\ <<0, 0>> \in DOMAIN world[<<0, 0>>].chunks
    /\ "block_entities" \in DOMAIN world[<<0, 0>>].chunks[<<0, 0>>].other
    /\ files[<<0, 0>>][<<0, 0>>]["block_entities"] # VList(<<>>)
    /\ files[<<0, 0>>][<<0, 0>>]["Status"] = VString("minecraft:full")
    /\ files[<<0, 0>>][<<3, 7>>]["sections"] = TemplateSections

\* C9: save leaves the world buffer unchanged, and a save that directly
\* follows a save leaves every region file identical to what the first one
\* wrote: the same chunks, written with their keys in the same order.
C9_SaveIdempotent ==
    [][(last'.op = "save" /\ nops' = nops + 1)
         => /\ world' = world
            /\ last.op = "save" => files' = files /\ layout' = layout]_vars

\* C10: save writes exactly one file, of 1024 chunks, for each region key
\* of the world buffer and no other file; with no region in the buffer it
\* writes no file.
C10_OneFilePerRegion ==
    last.op = "save"
    => \A keys \in {Unwrap(last.ret)} :
          /\ {keys[n] : n \in DOMAIN keys} = DOMAIN world
          /\ Len(keys) = Cardinality(DOMAIN world)
          /\ DOMAIN files = DOMAIN world
          /\ \A rk \in DOMAIN files : DOMAIN files[rk] = Slots
          /\ world = EmptyMap => files = EmptyMap

\* Two regions, one of them negative and without any block.
C10_Witness ==
    /\ last.op = "save"
    /\ DOMAIN files = {<<1, 0>>, <<-1, -1>>}
    /\ Len(Unwrap(last.ret)) = 2

Min(a, b) == IF a <= b THEN a ELSE b

\* The cells of the inclusive cuboid between two corners.
Cuboid(a) ==
    {<<x, y, z>> : x \in Min(a.x1, a.x2)..Max(a.x1, a.x2),
                   y \in Min(a.y1, a.y2)..Max(a.y1, a.y2),
                   z \in Min(a.z1, a.z2)..Max(a.z1, a.z2)}

\* c comes before d when compared on the axes in the order ax.
LexLess(c, d, ax) ==
    \/ c[ax[1]] < d[ax[1]]
    \/ c[ax[1]] = d[ax[1]] /\ c[ax[2]] < d[ax[2]]
    \/ c[ax[1]] = d[ax[1]] /\ c[ax[2]] = d[ax[2]] /\ c[ax[3]] < d[ax[3]]

\* The cells of S in the order LexLess gives for ax.
RECURSIVE Lex(_, _)
Lex(S, ax) ==
    IF S = {} THEN <<>>
    ELSE LET m == CHOOSE c \in S : \A d \in S \ {c} : LexLess(c, d, ax)
         IN  <<m>> \o Lex(S \ {m}, ax)

Reverse(q) == [n \in DOMAIN q |-> q[Len(q) + 1 - n]]

\* Orders of the cells of S: all of them for up to four cells, otherwise
\* the six axis orders and their reverses.
Orders(S) ==
    IF Cardinality(S) <= 4 THEN Perms(S)
    ELSE UNION {{Lex(S, ax), Reverse(Lex(S, ax))} :
                   ax \in {<<1, 2, 3>>, <<1, 3, 2>>, <<2, 1, 3>>,
                           <<2, 3, 1>>, <<3, 1, 2>>, <<3, 2, 1>>}}

\* set_block(block, c, wl, bl) for the cells c of q from position n on, in
\* that order; a panic ends the sequence.
RECURSIVE SetEach(_, _, _, _)
SetEach(res, q, n, a) ==
    IF res.panic \/ n > Len(q) THEN res
    ELSE SetEach(EditorSetBlock(res.val, scale, a.block,
                                q[n][1], q[n][2], q[n][3], a.wl, a.bl),
                 q, n + 1, a)

\* C11: fill_blocks leaves the buffer as set_block called once for every
\* cell of the inclusive cuboid leaves it, in any order of the cells and
\* for either order of the corners, and it aborts exactly when those calls
\* abort; out-of-bounds cells are skipped and no other cell changes.
C11_FillIsSetBlockPerCell ==
    last.op = "fill_blocks"
    => /\ \A q \in Orders(Cuboid(last.args)) :
             \A r \in {SetEach(Ok(last.pre), q, 1, last.args)} :
                /\ r.panic = panicked
                /\ ~panicked => r.val = world
       /\ \A a \in {last.args} :
             \A r \in {EditorFillBlocks(last.pre, scale, a.block,
                                         a.x2, a.y2, a.z2, a.x1, a.y1, a.z1,
                                         a.wl, a.bl)} :
                /\ r.panic = panicked
                /\ ~panicked => r.val = world
       /\ ~panicked
             => \A c \in Cuboid(last.args) :
                   ~InBounds(c[1], c[3])
                      => Read(world, c[1], c[2], c[3])
                           = Read(last.pre, c[1], c[2], c[3])

\* The corners are given greatest first, the cuboid has eight cells, one of
\* which already holds DIRT and keeps it.
C11_Witness ==
    /\ last.op = "fill_blocks"
    /\ last.args.x1 > last.args.x2
    /\ Cardinality(Cuboid(last.args)) = 8
    /\ Read(last.pre, 0, 64, 0) = Some(DIRT)
    /\ Read(world, 0, 64, 0) = Some(DIRT)
    /\ Read(world, 1, 65, 1) = Some(STONE)
    /\ Read(world, 1, 64, 0) = Some(STONE)

\* The region key and the chunk slot that own the column (x, z).
OwnerRegion(x, z) == <<x \div 512, z \div 512>>

OwnerChunk(x, z) == <<(x \div 16) % 32, (z \div 16) % 32>>

\* The block_entities list of the chunk that owns (x, z): empty when the
\* chunk or the list does not exist.
EntitiesAt(regions, x, z) ==
    IF /\ OwnerRegion(x, z) \in DOMAIN regions
       /\ OwnerChunk(x, z) \in DOMAIN regions[OwnerRegion(x, z)].chunks
       /\ "block_entities" \in
             DOMAIN regions[OwnerRegion(x, z)].chunks[OwnerChunk(x, z)].other
    THEN regions[OwnerRegion(x, z)].chunks[OwnerChunk(x, z)]
            .other["block_entities"].v
    ELSE <<>>

\* e is a sign entity at (x, y, z) whose messages are the lines in quotes.
IsSignEntity(e, lines, x, y, z) ==
    /\ e.v.id = VString("minecraft:sign")
    /\ e.v.x = VInt(x) /\ e.v.y = VInt(y) /\ e.v.z = VInt(z)
    /\ e.v.front_text.v.messages
          = VList([n \in 1..4 |-> VString("\"" \o lines[n] \o "\"")])

\* C12: a set_sign call that returns, with (x, z) in bounds and nothing
\* written at (x, y, z), appends exactly one compound to the block_entities
\* list of the owning chunk, with id "minecraft:sign", the given x, y, z and
\* the four lines in double quotes; the entities already listed stay in
\* place and order; the block at (x, y, z) is then the sign block; the
\* rotation argument changes nothing.
C12_SetSignAppends ==
    (/\ last.op = "set_sign"
     /\ ~panicked
     /\ InBounds(last.args.x, last.args.z)
     /\ ReadAt(last.pre, last.args) = None)
    => \A before \in {EntitiesAt(last.pre, last.args.x, last.args.z)} :
       \A after \in {EntitiesAt(world, last.args.x, last.args.z)} :
          /\ Len(after) = Len(before) + 1
          /\ SubSeq(after, 1, Len(before)) = before
          /\ IsSignEntity(after[Len(after)], last.args.lines,
                          last.args.x, last.args.y, last.args.z)
          /\ ReadAt(world, last.args) = Some(SIGN)
          /\ \A rotation \in {-128, 0, 4, 127} :
                EditorSetSign(last.pre, scale, last.args.lines, last.args.x,
                              last.args.y, last.args.z, rotation)
                   = Ok(world)

\* A second sign in a chunk that already lists one: the list has the
\* earlier entity first and the new one after it.
C12_Witness ==
    /\ last.op = "set_sign"
    /\ last.args.x = 0
    /\ last.args.rotation = 0
    /\ Len(EntitiesAt(last.pre, 0, 0)) = 1
    /\ Len(EntitiesAt(world, 0, 0)) = 2
    /\ EntitiesAt(world, 0, 0)[1].v.x = VInt(10)
    /\ EntitiesAt(world, 0, 0)[2].v.y = VInt(64)
    /\ Read(world, 0, 64, 0) = Some(SIGN)
    /\ Read(world, 10, 70, 10) = Some(SIGN)

\* C13: a check_for_block call that returns gives true exactly when the
\* buffer holds a block at (x, y, z) and a given whitelist contains its id
\* or a given blacklist contains its id, so false when nothing is written
\* there or no list is given; the call never changes the world buffer.
C13_CheckForBlock ==
    last.op = "check_for_block"
    => /\ world = last.pre
       /\ ~panicked
             => \A got \in {ReadAt(last.pre, last.args)} :
                   /\ Unwrap(last.ret)
                         <=> /\ got # None
                             /\ \/ /\ last.args.wl # None
                                   /\ BlockId(Unwrap(got))
                                         \in Ids(Unwrap(last.args.wl))
                                \/ /\ last.args.bl # None
                                   /\ BlockId(Unwrap(got))
                                         \in Ids(Unwrap(last.args.bl))
                   /\ got = None => ~Unwrap(last.ret)
                   /\ (last.args.wl = None /\ last.args.bl = None)
                         => ~Unwrap(last.ret)

\* The cell holds STONE, the whitelist does not contain it and the
\* blacklist does: the answer is true.
C13_Witness ==
    /\ last.op = "check_for_block"
    /\ ReadAt(last.pre, last.args) = Some(STONE)
    /\ last.args.wl = Some(<<PLANKS, DIRT>>)
    /\ last.args.bl = Some(<<STONE>>)
    /\ last.ret = Some(TRUE)
    /\ world = last.pre

\* The chunk that owns the column (x, z) is in the buffer.
HasChunk(regions, x, z) ==
    /\ OwnerRegion(x, z) \in DOMAIN regions
    /\ OwnerChunk(x, z) \in DOMAIN regions[OwnerRegion(x, z)].chunks

\* The (region, chunk) pairs of the buffer.
ChunkIndex(regions) ==
    {<<rk, ck>> : rk \in DOMAIN regions, ck \in Slots} \cap
    UNION {{<<rk, ck>> : ck \in DOMAIN regions[rk].chunks} :
             rk \in DOMAIN regions}

\* after is before with, at most, the region and the chunk that own (x, z)
\* added, the chunk empty; everything that was there is as it was.
OnlyOwnerAdded(before, after, x, z) ==
    /\ DOMAIN after = DOMAIN before \cup {OwnerRegion(x, z)}
    /\ ChunkIndex(after)
          = ChunkIndex(before) \cup {<<OwnerRegion(x, z), OwnerChunk(x, z)>>}
    /\ \A rc \in ChunkIndex(before) :
          after[rc[1]].chunks[rc[2]] = before[rc[1]].chunks[rc[2]]
    /\ ~HasChunk(before, x, z)
          => after[OwnerRegion(x, z)].chunks[OwnerChunk(x, z)]
               = [sections |-> <<>>, other |-> <<>>]

\* The call is set_block or check_for_block at an in-bounds column and a
\* height whose section index does not fit a signed byte.
OverflowCall ==
    /\ last.op \in {"set_block", "check_for_block"}
    /\ InBounds(last.args.x, last.args.z)
    /\ ~SectionFits(last.args.y)

\* C14, as stated: in every editor state such a call aborts, and it leaves
\* no newly materialised region or chunk behind.
C14_AsStated ==
    OverflowCall
    => /\ panicked
       /\ DOMAIN world = DOMAIN last.pre
       /\ ChunkIndex(world) = ChunkIndex(last.pre)

\* C14, amended: set_block at an in-bounds column and a height whose
\* section index does not fit a signed byte aborts in every editor state,
\* and when the owning region or chunk was absent it has been materialised,
\* empty, by the time of the abort; check_for_block at such a height aborts
\* exactly when the owning chunk is in the buffer, otherwise it returns
\* false; check_for_block leaves the buffer as it was.
C14_OverflowAborts ==
    OverflowCall
    => /\ last.op = "set_block"
             => /\ panicked
                /\ OnlyOwnerAdded(last.pre, world, last.args.x, last.args.z)
       /\ last.op = "check_for_block"
             => /\ panicked <=> HasChunk(last.pre, last.args.x, last.args.z)
                /\ ~panicked => last.ret = Some(FALSE)
                /\ world = last.pre

\* set_block at height 2048 on an empty editor: it aborts, and the region
\* and the chunk are there.
C14_Witness ==
    /\ last.op = "set_block"
    /\ last.args.y = 2048
    /\ InBounds(last.args.x, last.args.z)
    /\ last.pre = EmptyMap
    /\ panicked
    /\ HasChunk(world, last.args.x, last.args.z)

\* C15: during save, for any number of regions, the values passed to the
\* progress sink never decrease, start at 90.0 and never exceed 99.0, the
\* counter is 99.0 after the last region, and every emission after the
\* first differs from the one before by more than 0.25.
C15_ProgressAsStated ==
    /\ prog.emitted[1] = F64OfInt(90)
    /\ \A k \in DOMAIN prog.emitted :
          /\ ~F64Less(F64OfInt(99), prog.emitted[k])
          /\ k > 1 => /\ ~F64Less(prog.emitted[k], prog.emitted[k - 1])
                      /\ F64Less(Quarter, F64AbsDiff(prog.emitted[k],
                                                     prog.emitted[k - 1]))
    /\ (prog.n > 0 /\ prog.i = prog.n) => prog.cur = F64OfInt(99)

\* The cells that the set_block and fill_blocks calls of the model address.
ProbeCells ==
    {<<a.x, a.y, a.z>> : a \in EditSetInputs}
    \cup UNION {Cuboid(a) : a \in EditFillInputs}

\* The call with arguments a of operation op covers the cell c.
Covers(op, a, c) ==
    IF op = "set_block" THEN c = <<a.x, a.y, a.z>> ELSE c \in Cuboid(a)

\* C16: a set_block or fill_blocks call without lists that writes a block
\* other than AIR keeps every block that a read returned before it; an
\* empty cell gets the call's block if the call covers it in bounds, and
\* stays empty otherwise.  So a cell holds the block of the first in-bounds
\* write that covered it.
C16_FirstWriterWins ==
    [][(/\ last'.op \in {"set_block", "fill_blocks"}
        /\ nops' = nops + 1
        /\ last'.args.wl = None /\ last'.args.bl = None
        /\ last'.args.block # AIR)
       => \A c \in ProbeCells :
             \A old \in {Read(world, c[1], c[2], c[3])} :
             \A new \in {Read(world', c[1], c[2], c[3])} :
                /\ old # None => new = old
                /\ (/\ old = None
                    /\ ~panicked'
                    /\ Covers(last'.op, last'.args, c)
                    /\ InBounds(c[1], c[3]))
                      => new = Some(last'.args.block)
                /\ (/\ old = None
                    /\ ~(Covers(last'.op, last'.args, c)
                         /\ InBounds(c[1], c[3])))
                      => new = None]_vars

\* STONE was written first; a later set_block of DIRT without lists at the
\* same cell leaves STONE.
C16_Witness ==
    /\ last.op = "set_block"
    /\ last.args = SetArgs(DIRT, 0, 64, 0, None, None)
    /\ Read(last.pre, 0, 64, 0) = Some(STONE)
    /\ Read(world, 0, 64, 0) = Some(STONE)

\* The sign entities recorded anywhere in the buffer.
SignEntities(regions) ==
    UNION {{regions[rc[1]].chunks[rc[2]].other["block_entities"].v[n] :
               n \in DOMAIN regions[rc[1]].chunks[rc[2]]
                               .other["block_entities"].v} :
             rc \in {d \in ChunkIndex(regions) :
                       "block_entities" \in
                          DOMAIN regions[d[1]].chunks[d[2]].other}}

\* C17: in every state reached by set_block, fill_blocks and set_sign
\* calls that returned, each recorded sign entity lies within the bounds
\* and the buffer holds the sign block at its x, y, z; a set_sign whose
\* block write is rejected by the bounds check or suppressed by an existing
\* block records nothing and materialises nothing.
C17_SignEntitiesAsStated ==
    ~panicked
    => /\ \A e \in SignEntities(world) :
             /\ InBounds(e.v.x.v, e.v.z.v)
             /\ Read(world, e.v.x.v, e.v.y.v, e.v.z.v) = Some(SIGN)
       /\ (/\ last.op = "set_sign"
           /\ \/ ~InBounds(last.args.x, last.args.z)
              \/ ReadAt(last.pre, last.args) # None)
             => world = last.pre

====
